---- MODULE Spec2Model ----
(***************************************************************************)
(* Model of the HomePage component (src/unnamed/part_000): camera stream,  *)
(* face-detection interval, MediaRecorder session and localStorage         *)
(* persistence, under React 18 semantics: state updates made in a click    *)
(* handler are rendered synchronously, updates made in asynchronous        *)
(* callbacks are rendered in a later task; DOM refs of unmounted elements  *)
(* are detached at commit, before passive effect cleanups run.             *)
(***************************************************************************)
EXTENDS Integers, Sequences, FiniteSets, TLC

\* ---------------------------------------------------------------- bounds
MaxStreams == 2        \* streams the camera device hands out in one run
MaxPendingLoads == 2   \* model fetches in flight at once
MaxPendingGUM == 2     \* getUserMedia requests in flight at once
MaxInFlight == 2       \* detection submissions in flight at once
MaxChunks == 2         \* chunks one encoder emits in one session
FetchCap == 2          \* the fetch counter saturates here
MaxPendingReads == 2   \* FileReader reads in flight at once
MaxDownloads == 1      \* file downloads in one run

\* ---------------------------------------------------------------- values
NoError == "none"
LoadErr == "Failed to load face tracking models"
CameraErr == "Failed to access camera"
StorageErr == "Failed to save video to local storage"
NoSourceErr == "No video stream available to record"
EncoderErr == "Failed to start recording"
NoArtifactErr == "No video recorded to download"

\* event.data of the n-th BlobEvent of a recorder: an empty blob, or a blob
\* whose one byte is n, so that the chunks of a session are all different
ChunkVals(n) == {<<>>, <<n>>}

NoUrl == [kind |-> "none", data |-> <<>>]
BlobUrl(d) == [kind |-> "blob", data |-> d]
DataUrl(d) == [kind |-> "data", data |-> d]

NoRecorder == [state |-> "none", stream |-> 0]

VARIABLES
  cameraOn, isRecording, videoBlobUrl, loadingModels, error, \* useState cells
  r,               \* the values of the last committed render (closures)
  mounted,         \* HomePage is mounted
  syncPending,     \* a click handler set state: React renders before anything else
  srcObject,       \* videoRef.current.srcObject: 0 (null) or a stream id
  onloadedmetadata,\* videoRef.current.onloadedmetadata is set
  metaPending,     \* the element has a loadedmetadata event to fire
  playing,         \* !video.paused && !video.ended of the mounted element
  liveStreams,     \* acquired streams whose tracks have not been stopped
  acquired, released, \* device-acquired / device-released events so far
  pendingGUM,      \* getUserMedia promises not yet settled
  pendingLoads,    \* loadModels() calls awaiting Promise.all
  fetchCount,      \* asset fetches started so far (saturates at FetchCap)
  timersCur,       \* live intervals bound to the mounted video element
  timersStale,     \* live intervals bound to video elements no longer mounted
  inFlight,        \* detectAllFaces submissions not yet rendered
  lastTick,        \* outcome of the last interval callback
  overlayDrawn,    \* drawDetections has run at least once
  recorder,        \* mediaRecorderRef.current
  recordedChunks,  \* recordedChunks.current
  emitted,         \* chunks the current recorder has emitted so far, in order
  pendingReads,    \* blobs a FileReader is still reading
  stored,          \* localStorage['recordedVideo']
  downloads,       \* file downloads materialized so far
  encoderOk        \* the browser supports 'video/webm; codecs=vp8'

stateVars == <<cameraOn, isRecording, videoBlobUrl, loadingModels, error>>
videoVars == <<srcObject, onloadedmetadata, metaPending, playing>>
streamVars == <<liveStreams, acquired, released, pendingGUM>>
loadVars == <<pendingLoads, fetchCount>>
detectVars == <<timersCur, timersStale, inFlight, lastTick, overlayDrawn>>
recVars == <<recorder, recordedChunks, emitted>>
storeVars == <<pendingReads, stored, downloads>>
vars == <<stateVars, r, mounted, syncPending, videoVars, streamVars, loadVars,
          detectVars, recVars, storeVars, encoderOk>>

\* ---------------------------------------------------------------- helpers
Snapshot == [cameraOn |-> cameraOn, isRecording |-> isRecording,
             videoBlobUrl |-> videoBlobUrl, loadingModels |-> loadingModels,
             error |-> error]

\* videoRef.current / canvasRef.current are attached iff the last commit
\* rendered the <video>/<canvas> pair
videoRef == mounted /\ r.cameraOn

\* the dependency list of the camera effect
DepsChanged(old, new) ==
  \/ old.loadingModels # new.loadingModels
  \/ old.error # new.error
  \/ old.isRecording # new.isRecording
  \/ old.cameraOn # new.cameraOn

SatInc(n) == IF n < FetchCap THEN n + 1 ELSE n

RECURSIVE Concat(_)
\* new Blob(parts): the bytes of the parts, in order
Concat(parts) ==
  IF parts = <<>> THEN <<>> ELSE Head(parts) \o Concat(Tail(parts))

\* a handler that puts the newest chunk first
handleDataAvailable_Prepend(chunks, data) ==
  IF Len(data) > 0 THEN <<data>> \o chunks ELSE chunks

\* handleDataAvailable
handleDataAvailable(chunks, data) ==
  IF Len(data) > 0 THEN Append(chunks, data) ELSE chunks

\* cleanup, first branch: the stream of the attached element is stopped
CleanupStopsStream(ref, src) == ref /\ src # 0

\* a cleanup that stops the stream but forgets the recorder
CleanupStopsRecorder_Never(rec, isRec) == FALSE

\* cleanup, second branch: mediaRecorderRef.current.stop()
CleanupStopsRecorder(rec, isRec) == rec.state # "none" /\ isRec

\* stopRecording's test, with the isRecording it captured
StopRecordingStops(rec, isRec) == rec.state # "none" /\ isRec

\* a stop() that queues the finalize events whatever the recorder's state
RecorderStop_Resignals(rec) ==
  IF rec.state = "none" THEN rec ELSE [rec EXCEPT !.state = "stopping"]

\* MediaRecorder.stop(): recording -> inactive with dataavailable+stop queued;
\* a no-op on an inactive recorder
RecorderStop(rec) ==
  IF rec.state = "recording" THEN [rec EXCEPT !.state = "stopping"] ELSE rec

\* effect body, first branch
EffectStartsVideo(lm, err, cam) == ~lm /\ err = NoError /\ cam

\* effect body, second branch
EffectReleasesStream(ref, src, cam) == ref /\ src # 0 /\ ~cam

\* startVideo's early return
StartVideoProceeds(ref) == ref

\* an early return that tests the element only, not its srcObject
NoStream_RefOnly(ref, src) == ~ref

\* startRecording's early return
NoStream(ref, src) == ~ref \/ src = 0

\* a download that does not test its artifact reference
DownloadHasUrl_Always(c) == TRUE

\* a download that also refuses while an error is shown
DownloadHasUrl_NoError(c) == c.videoBlobUrl.kind # "none" /\ c.error = NoError

\* downloadVideo's test of its captured videoBlobUrl
DownloadHasUrl(c) == c.videoBlobUrl.kind # "none"

\* a handleStop that keeps the chunks of the finished session
ChunksAfterStop_Kept(chunks) == chunks

\* handleStop: recordedChunks.current = []
ChunksAfterStop(chunks) == <<>>

\* setState of an unmounted component is dropped
Set(old, new) == IF mounted THEN new ELSE old

\* ---------------------------------------------------------------- Init
\* The state after the first commit and the first run of both effects:
\* loadModels() has been called once (still pending), startVideo() was not
\* (loadingModels is true), and the mount effect has read localStorage.
Init ==
  /\ stored \in {NoUrl, DataUrl(<<1>>)}
  /\ encoderOk \in BOOLEAN
  /\ cameraOn = TRUE /\ isRecording = FALSE /\ loadingModels = TRUE
  /\ error = NoError
  /\ videoBlobUrl = stored
  /\ r = [cameraOn |-> TRUE, isRecording |-> FALSE, videoBlobUrl |-> NoUrl,
          loadingModels |-> TRUE, error |-> NoError]
  /\ mounted = TRUE /\ syncPending = FALSE
  /\ srcObject = 0 /\ onloadedmetadata = FALSE /\ metaPending = FALSE
  /\ playing = FALSE
  /\ liveStreams = {} /\ acquired = 0 /\ released = 0 /\ pendingGUM = 0
  /\ pendingLoads = 1 /\ fetchCount = 1
  /\ timersCur = 0 /\ timersStale = 0 /\ inFlight = 0 /\ lastTick = "none"
  /\ overlayDrawn = FALSE
  /\ recorder = NoRecorder /\ recordedChunks = <<>> /\ emitted = <<>>
  /\ pendingReads = {} /\ downloads = 0

\* the requests one more run of the camera effect may issue fit the bounds
Room == pendingLoads < MaxPendingLoads /\ pendingGUM < MaxPendingGUM

\* ---------------------------------------------------------------- render
\* One render + commit + passive effects of HomePage.  Commit attaches or
\* detaches the <video> element; if a dependency changed, the cleanup of the
\* previous effect runs with the previous closure (r) against the refs as
\* they are after the commit, then the effect body runs with the new values.
Render ==
  /\ mounted
  /\ Snapshot # r
  /\ LET new == Snapshot
         deps == DepsChanged(r, new)
         detach == r.cameraOn /\ ~new.cameraOn
         attach == ~r.cameraOn /\ new.cameraOn
         ref == new.cameraOn
         src0 == IF detach \/ attach THEN 0 ELSE srcObject
         stops == deps /\ CleanupStopsStream(ref, src0)
         src1 == IF stops THEN 0 ELSE src0
         stopsRec == deps /\ CleanupStopsRecorder(recorder, r.isRecording)
         starts == deps /\ EffectStartsVideo(new.loadingModels, new.error, new.cameraOn)
                        /\ StartVideoProceeds(ref)
         offRel == deps /\ ~EffectStartsVideo(new.loadingModels, new.error, new.cameraOn)
                        /\ EffectReleasesStream(ref, src1, new.cameraOn)
         gone == IF stops THEN {src0} ELSE IF offRel THEN {src1} ELSE {}
     IN /\ deps => Room
        /\ r' = new
        /\ syncPending' = FALSE
        /\ srcObject' = IF offRel THEN 0 ELSE src1
        /\ onloadedmetadata' = IF deps THEN FALSE ELSE onloadedmetadata
        /\ metaPending' = IF detach \/ attach \/ stops \/ offRel THEN FALSE ELSE metaPending
        /\ playing' = IF detach \/ attach \/ stops \/ offRel THEN FALSE ELSE playing
        /\ liveStreams' = liveStreams \ gone
        /\ released' = released + Cardinality(gone)
        /\ timersCur' = IF detach THEN 0 ELSE timersCur
        /\ timersStale' = IF detach THEN timersStale + timersCur ELSE timersStale
        /\ recorder' = IF stopsRec THEN RecorderStop(recorder) ELSE recorder
        \* loadModels(): setLoadingModels(true), then the four loadFromUri
        /\ loadingModels' = IF deps THEN TRUE ELSE loadingModels
        /\ pendingLoads' = IF deps THEN pendingLoads + 1 ELSE pendingLoads
        /\ fetchCount' = IF deps THEN SatInc(fetchCount) ELSE fetchCount
        /\ pendingGUM' = IF starts THEN pendingGUM + 1 ELSE pendingGUM
  /\ UNCHANGED <<cameraOn, isRecording, videoBlobUrl, error, mounted, acquired,
                 inFlight, lastTick, overlayDrawn,
                 recordedChunks, emitted, storeVars, encoderOk>>

\* Component teardown: refs are detached, then the effect cleanup runs.
Unmount ==
  /\ mounted /\ ~syncPending
  /\ mounted' = FALSE
  /\ LET stops == CleanupStopsStream(FALSE, srcObject)
     IN /\ liveStreams' = IF stops THEN liveStreams \ {srcObject} ELSE liveStreams
        /\ released' = IF stops THEN released + 1 ELSE released
  /\ srcObject' = 0 /\ onloadedmetadata' = FALSE /\ metaPending' = FALSE
  /\ playing' = FALSE
  /\ timersCur' = 0
  /\ timersStale' = timersStale + (IF r.cameraOn THEN timersCur ELSE 0)
  /\ recorder' = IF CleanupStopsRecorder(recorder, r.isRecording)
                 THEN RecorderStop(recorder) ELSE recorder
  /\ UNCHANGED <<stateVars, r, syncPending, acquired, pendingGUM, loadVars,
                 inFlight, lastTick, overlayDrawn, recordedChunks, emitted,
                 storeVars, encoderOk>>

\* ---------------------------------------------------------------- loadModels
\* Promise.all resolved: setLoadingModels(false); setError(null)
LoadModelsDone ==
  /\ pendingLoads > 0
  /\ pendingLoads' = pendingLoads - 1
  /\ loadingModels' = Set(loadingModels, FALSE)
  /\ error' = Set(error, NoError)
  /\ UNCHANGED <<cameraOn, isRecording, videoBlobUrl, r, mounted, syncPending,
                 videoVars, streamVars, fetchCount, detectVars,
                 recVars, storeVars, encoderOk>>

\* Promise.all rejected: setError(...); setLoadingModels(false)
LoadModelsFail ==
  /\ pendingLoads > 0
  /\ pendingLoads' = pendingLoads - 1
  /\ loadingModels' = Set(loadingModels, FALSE)
  /\ error' = Set(error, LoadErr)
  /\ UNCHANGED <<cameraOn, isRecording, videoBlobUrl, r, mounted, syncPending,
                 videoVars, streamVars, fetchCount, detectVars,
                 recVars, storeVars, encoderOk>>

\* ---------------------------------------------------------------- startVideo
\* getUserMedia resolved with a new stream.  With no element attached the
\* assignment to videoRef.current.srcObject throws and the catch sets error.
GetUserMediaDone ==
  /\ pendingGUM > 0 /\ acquired < MaxStreams
  /\ pendingGUM' = pendingGUM - 1
  /\ acquired' = acquired + 1
  /\ liveStreams' = liveStreams \cup {acquired + 1}
  /\ IF videoRef
       THEN /\ srcObject' = acquired + 1
            /\ onloadedmetadata' = TRUE
            /\ metaPending' = TRUE
            /\ playing' = FALSE
            /\ error' = error
       ELSE /\ error' = Set(error, CameraErr)
            /\ UNCHANGED videoVars
  /\ UNCHANGED <<cameraOn, isRecording, videoBlobUrl, loadingModels, r, mounted,
                 syncPending, released, loadVars, detectVars, recVars,
                 storeVars, encoderOk>>

GetUserMediaFail ==
  /\ pendingGUM > 0
  /\ pendingGUM' = pendingGUM - 1
  /\ error' = Set(error, CameraErr)
  /\ UNCHANGED <<cameraOn, isRecording, videoBlobUrl, loadingModels, r, mounted,
                 syncPending, videoVars, liveStreams, acquired, released,
                 loadVars, detectVars, recVars, storeVars, encoderOk>>

\* loadedmetadata on the attached element: play(), and the handler, captured
\* by a startVideo that only runs when !loadingModels && !error, starts the
\* detection interval; detectionInterval is a fresh local, so nothing is cleared
LoadedMetadata ==
  /\ metaPending
  /\ metaPending' = FALSE
  /\ playing' = TRUE
  /\ timersCur' = IF onloadedmetadata THEN timersCur + 1 ELSE timersCur
  /\ UNCHANGED <<stateVars, r, mounted, syncPending, srcObject, onloadedmetadata,
                 streamVars, loadVars, timersStale, inFlight, lastTick,
                 overlayDrawn, recVars, storeVars, encoderOk>>

\* ---------------------------------------------------------------- detection
\* An interval bound to the attached element fires while the video plays:
\* detectAllFaces is submitted; nothing tests whether one is still running.
TickSubmit ==
  /\ timersCur > 0 /\ playing
  /\ inFlight < MaxInFlight
  /\ inFlight' = inFlight + 1
  /\ lastTick' = "submitted"
  /\ UNCHANGED <<stateVars, r, mounted, syncPending, videoVars, streamVars,
                 loadVars, timersCur, timersStale, overlayDrawn, recVars,
                 storeVars, encoderOk>>

\* An interval fires while its video is paused or ended (an attached element
\* without a playing stream, or an element removed from the document)
TickSkip ==
  /\ \/ timersCur > 0 /\ ~playing
     \/ timersStale > 0
  /\ lastTick # "skipped"
  /\ lastTick' = "skipped"
  /\ UNCHANGED <<stateVars, r, mounted, syncPending, videoVars, streamVars,
                 loadVars, timersCur, timersStale, inFlight, overlayDrawn,
                 recVars, storeVars, encoderOk>>

\* a submission resolves: resizeResults, clearRect, drawDetections
DetectionDone ==
  /\ inFlight > 0
  /\ inFlight' = inFlight - 1
  /\ overlayDrawn' = TRUE
  /\ UNCHANGED <<stateVars, r, mounted, syncPending, videoVars, streamVars,
                 loadVars, timersCur, timersStale, lastTick, recVars,
                 storeVars, encoderOk>>

\* ---------------------------------------------------------------- clicks
CanClick == mounted /\ ~syncPending /\ Room

\* the camera button: setCameraOn(prev => !prev)
ToggleCamera ==
  /\ CanClick
  /\ cameraOn' = ~cameraOn
  /\ syncPending' = TRUE
  /\ UNCHANGED <<isRecording, videoBlobUrl, loadingModels, error, r, mounted,
                 videoVars, streamVars, loadVars, detectVars, recVars,
                 storeVars, encoderOk>>

StartEnabled == ~r.isRecording /\ ~r.loadingModels /\ r.error = NoError /\ r.cameraOn

\* startRecording
StartRecording ==
  /\ CanClick /\ StartEnabled
  /\ Cardinality(pendingReads) < MaxPendingReads
  /\ IF NoStream(videoRef, srcObject)
       THEN /\ error' = NoSourceErr
            /\ UNCHANGED <<isRecording, videoBlobUrl, recVars>>
       ELSE /\ recordedChunks' = <<>>
            /\ videoBlobUrl' = NoUrl
            /\ IF encoderOk
                 THEN /\ recorder' = [state |-> "recording", stream |-> srcObject]
                      /\ emitted' = <<>>
                      /\ isRecording' = TRUE
                      /\ error' = error
                 ELSE /\ error' = EncoderErr
                      /\ UNCHANGED <<recorder, emitted, isRecording>>
  /\ UNCHANGED <<cameraOn, loadingModels, r, mounted, videoVars, streamVars,
                 loadVars, detectVars, storeVars, encoderOk>>
  /\ syncPending' = (Snapshot' # Snapshot)

\* stopRecording, with the isRecording of the render it was created in; the
\* button is enabled while that render shows isRecording, also after stop()
StopRecording ==
  /\ CanClick /\ r.isRecording
  /\ recorder' = IF StopRecordingStops(recorder, r.isRecording)
                 THEN RecorderStop(recorder) ELSE recorder
  /\ UNCHANGED <<stateVars, r, mounted, syncPending, videoVars, streamVars,
                 loadVars, detectVars, recordedChunks, emitted, storeVars,
                 encoderOk>>

DownloadEnabled == r.videoBlobUrl.kind # "none" /\ ~r.isRecording

\* the body of downloadVideo, with the videoBlobUrl of the render it was
\* created in
downloadVideo ==
  /\ downloads < MaxDownloads
  /\ IF DownloadHasUrl(r)
       THEN /\ downloads' = downloads + 1
            /\ error' = error
       ELSE /\ error' = NoArtifactErr
            /\ downloads' = downloads
  /\ syncPending' = (error' # error)
  /\ UNCHANGED <<cameraOn, isRecording, videoBlobUrl, loadingModels, r, mounted,
                 videoVars, streamVars, loadVars, detectVars, recVars,
                 pendingReads, stored, encoderOk>>

\* a click on the Download button
DownloadVideo == CanClick /\ DownloadEnabled /\ downloadVideo

\* downloadVideo called while its button is disabled: the handler is invoked
\* directly, as the operation download() of the presentation interface
DownloadCall == CanClick /\ ~DownloadEnabled /\ downloadVideo

\* ---------------------------------------------------------------- encoder
\* dataavailable while the recorder records
EncoderChunk ==
  /\ recorder.state = "recording"
  /\ Len(emitted) + 1 < MaxChunks
  /\ \E data \in ChunkVals(Len(emitted) + 1) :
       /\ emitted' = Append(emitted, data)
       /\ recordedChunks' = handleDataAvailable(recordedChunks, data)
  /\ UNCHANGED <<stateVars, r, mounted, syncPending, videoVars, streamVars,
                 loadVars, detectVars, recorder, storeVars, encoderOk>>

\* The recorder has been stopped, or every track of its stream has ended:
\* it fires the last dataavailable and then stop, which runs handleStop.
EncoderFinalize ==
  /\ \/ recorder.state = "stopping"
     \/ recorder.state = "recording" /\ recorder.stream \notin liveStreams
  /\ \E data \in ChunkVals(Len(emitted) + 1) :
       LET chunks == handleDataAvailable(recordedChunks, data)
           superBuffer == Concat(chunks)
       IN /\ emitted' = Append(emitted, data)
          /\ recordedChunks' = ChunksAfterStop(chunks)
          /\ videoBlobUrl' = Set(videoBlobUrl, BlobUrl(superBuffer))
          /\ pendingReads' = pendingReads \cup {superBuffer}
  /\ isRecording' = Set(isRecording, FALSE)
  /\ recorder' = [recorder EXCEPT !.state = "inactive"]
  /\ UNCHANGED <<cameraOn, loadingModels, error, r, mounted, syncPending,
                 videoVars, streamVars, loadVars, detectVars, stored,
                 downloads, encoderOk>>

\* reader.onloadend: localStorage.setItem succeeds
ReaderSaved ==
  /\ \E b \in pendingReads :
       /\ pendingReads' = pendingReads \ {b}
       /\ stored' = DataUrl(b)
  /\ UNCHANGED <<stateVars, r, mounted, syncPending, videoVars, streamVars,
                 loadVars, detectVars, recVars, downloads, encoderOk>>

\* reader.onloadend: localStorage.setItem throws (quota)
ReaderQuota ==
  /\ \E b \in pendingReads : pendingReads' = pendingReads \ {b}
  /\ error' = Set(error, StorageErr)
  /\ UNCHANGED <<cameraOn, isRecording, videoBlobUrl, loadingModels, r, mounted,
                 syncPending, videoVars, streamVars, loadVars, detectVars,
                 recVars, stored, downloads, encoderOk>>

\* ---------------------------------------------------------------- startup
\* The page is loaded again: every object of the previous page (state cells,
\* refs, streams, timers, pending promises and FileReader reads) is gone,
\* localStorage survives, and the mount effect reads the key once.
Restart ==
  /\ stored' = stored /\ encoderOk' = encoderOk
  /\ cameraOn' = TRUE /\ isRecording' = FALSE /\ loadingModels' = TRUE
  /\ error' = NoError
  /\ videoBlobUrl' = stored
  /\ r' = [cameraOn |-> TRUE, isRecording |-> FALSE, videoBlobUrl |-> NoUrl,
           loadingModels |-> TRUE, error |-> NoError]
  /\ mounted' = TRUE /\ syncPending' = FALSE
  /\ srcObject' = 0 /\ onloadedmetadata' = FALSE /\ metaPending' = FALSE
  /\ playing' = FALSE
  /\ liveStreams' = {} /\ acquired' = 0 /\ released' = 0 /\ pendingGUM' = 0
  /\ pendingLoads' = 1 /\ fetchCount' = 1
  /\ timersCur' = 0 /\ timersStale' = 0 /\ inFlight' = 0 /\ lastTick' = "none"
  /\ overlayDrawn' = FALSE
  /\ recorder' = NoRecorder /\ recordedChunks' = <<>> /\ emitted' = <<>>
  /\ pendingReads' = {} /\ downloads' = 0

\* ---------------------------------------------------------------- spec
Next ==
  \/ Render
  \/ Unmount
  \/ LoadModelsDone
  \/ LoadModelsFail
  \/ GetUserMediaDone
  \/ GetUserMediaFail
  \/ LoadedMetadata
  \/ TickSubmit
  \/ TickSkip
  \/ DetectionDone
  \/ ToggleCamera
  \/ StartRecording
  \/ StopRecording
  \/ DownloadVideo
  \/ EncoderChunk
  \/ EncoderFinalize
  \/ ReaderSaved
  \/ ReaderQuota

Spec == Init /\ [][Next]_vars

\* Camera, model loading and the detection loop, with no recording session.
NextDetect ==
  \/ Render
  \/ Unmount
  \/ LoadModelsDone
  \/ LoadModelsFail
  \/ GetUserMediaDone
  \/ GetUserMediaFail
  \/ LoadedMetadata
  \/ TickSubmit
  \/ TickSkip
  \/ DetectionDone
  \/ ToggleCamera

SpecDetect == Init /\ [][NextDetect]_vars

\* Camera, model loading and the recording session.  Left out are the
\* actions of the detection loop (loadedmetadata and the interval callbacks),
\* which write only metaPending, playing and detectVars, and the download
\* button, which writes only downloads (its button is disabled whenever its
\* error branch would be taken): the values of these variables never reach
\* any other variable.
NextRec ==
  \/ Render
  \/ Unmount
  \/ LoadModelsDone
  \/ LoadModelsFail
  \/ GetUserMediaDone
  \/ GetUserMediaFail
  \/ ToggleCamera
  \/ StartRecording
  \/ StopRecording
  \/ EncoderChunk
  \/ EncoderFinalize
  \/ ReaderSaved
  \/ ReaderQuota

SpecRec == Init /\ [][NextRec]_vars

\* The recording session together with the download button.
NextStore ==
  \/ NextRec
  \/ DownloadVideo

SpecStore == Init /\ [][NextStore]_vars

\* The recording session across page loads.
NextPersist ==
  \/ NextRec
  \/ Restart

SpecPersist == Init /\ [][NextPersist]_vars

\* The recording session with downloadVideo invoked in every state.
NextDownload ==
  \/ NextStore
  \/ DownloadCall

SpecDownload == Init /\ [][NextDownload]_vars

\* The recording session, with the recorder's queued dataavailable and stop
\* events eventually dispatched by the browser's event loop.
SpecRecFair == SpecRec /\ WF_vars(EncoderFinalize)

TypeOK ==
  /\ cameraOn \in BOOLEAN /\ isRecording \in BOOLEAN /\ loadingModels \in BOOLEAN
  /\ srcObject \in 0..MaxStreams
  /\ liveStreams \subseteq 1..MaxStreams
  /\ released <= acquired /\ acquired <= MaxStreams
  /\ pendingGUM \in 0..MaxPendingGUM /\ pendingLoads \in 0..MaxPendingLoads
  /\ inFlight \in 0..MaxInFlight
  /\ Len(emitted) <= MaxChunks

\* ================================================================ claims

\* C1: detection ticks never overlap: at most one detection submission is in
\* flight at any instant.
C1_AtMostOneInFlight == inFlight <= 1

\* C2: no detection timer is live while the camera is off, while an error is
\* set, or after unmount (once the state change has been rendered).
C2_TimerTornDown ==
  (timersCur + timersStale > 0) =>
     /\ mounted
     /\ (Snapshot = r) => (cameraOn /\ error = NoError)

\* C3: the models are fetched at most once in total, and no fetch starts
\* while another one is pending.
C3_SingleFetch == fetchCount <= 1 /\ pendingLoads <= 1

\* the capability counts as ready when loading is over and no error is set
\* (the test the effect and the loadedmetadata handler make)
Ready == ~loadingModels /\ error = NoError

\* C4: while the recorded error is the cause of a failed model load, the
\* capability does not become ready and no further load is started.
C4_FailureIsPermanent ==
  [][(error = LoadErr) =>
       (~Ready' /\ pendingLoads' <= pendingLoads)]_vars

\* the last camera toggle has been rendered, the camera is off and no
\* acquisition is pending
SettledOff == mounted /\ ~cameraOn /\ Snapshot = r /\ pendingGUM = 0

\* C5: acquired never exceeds released by more than one, and with the camera
\* settled off every acquired stream has been released.
C5_AcquireReleaseBalanced ==
  /\ acquired - released <= 1
  /\ SettledOff => acquired = released

\* C6: the active stream is released or replaced only by a camera-off
\* transition or by component teardown.
C6_OnlyControllerReleases ==
  [][(released' # released \/ (srcObject # 0 /\ srcObject' # srcObject))
       => ((r.cameraOn /\ ~r'.cameraOn) \/ (mounted /\ ~mounted'))]_vars

\* C7: startRecording with no active stream only sets the no-source error:
\* the recording flag stays false, no recorder is created, and the chunk
\* sequence and the artifact reference are unchanged.
C7_StartWithoutSourceFails ==
  [][(StartRecording /\ (~videoRef \/ srcObject = 0))
       => /\ error' = NoSourceErr
          /\ ~isRecording /\ ~isRecording'
          /\ recorder' = recorder
          /\ recordedChunks' = recordedChunks
          /\ videoBlobUrl' = videoBlobUrl]_vars

C7_Witness ==
  /\ error = NoSourceErr /\ syncPending
  /\ ~isRecording /\ recorder = NoRecorder

\* C8: the artifact exposed by a finalize is the concatenation, in emission
\* order, of the chunks the recorder of that session emitted, and of nothing
\* else.
C8_ArtifactIsEmittedChunks ==
  (videoBlobUrl.kind = "blob") =>
     /\ recorder.state = "inactive"
     /\ recordedChunks = <<>>
     /\ videoBlobUrl.data = Concat(emitted)

C8_Witness ==
  /\ videoBlobUrl = BlobUrl(<<1, 2>>)
  /\ emitted = <<(<<1>>), (<<2>>)>>

C10_RecorderStoppedWithCamera ==
  (~mounted \/ ~r.cameraOn) => recorder.state # "recording"

C10_Witness ==
  /\ ~r.cameraOn /\ r.isRecording /\ isRecording
  /\ recorder.state = "stopping"

\* C11: at most one getUserMedia request is pending at any time: an effect
\* run or a toggle while one is pending issues no second device request.
C11_SingleAcquisitionInFlight == pendingGUM <= 1

\* the camera button turned the camera on and the commit of that click is due
EnableRequested == mounted /\ ~r.cameraOn /\ cameraOn

\* C12: with the model load failed (load error set, loading over), the
\* render of a camera enable still requests the camera device.
C12_CameraStartsWithoutModels ==
  [][(Render /\ EnableRequested /\ error = LoadErr /\ ~loadingModels)
       => pendingGUM' = pendingGUM + 1]_vars

\* an effect run (some dependency changed) of a render with the camera off
DisableRun == Render /\ DepsChanged(r, Snapshot) /\ ~cameraOn

\* C13: every effect run with the camera off ends with the stream reference
\* cleared and the tracks of the stream that was attached stopped, and with
\* no stream attached it changes neither the streams nor the error.
C13_DisableIdempotent ==
  [][DisableRun =>
       /\ srcObject' = 0
       /\ srcObject # 0 => srcObject \notin liveStreams'
       /\ srcObject = 0 => UNCHANGED <<liveStreams, released, error>>]_vars

\* C14: the write that lands last, with no session in progress, leaves under
\* the key the artifact of the most recently finalized session, and a page
\* load restores the artifact reference to what the key holds (absent when
\* the key holds nothing).
C14_PersistenceRoundTrip ==
  [][/\ (ReaderSaved /\ pendingReads' = {} /\ recorder.state = "inactive")
          => stored' = DataUrl(Concat(emitted))
     /\ Restart => videoBlobUrl' = stored]_vars

\* C15: a failed getUserMedia sets the camera error, and a render that
\* follows one showing that error, with the camera button untouched, issues
\* no new getUserMedia request.
C15_NoAutomaticReacquire ==
  [][/\ (GetUserMediaFail /\ mounted) => error' = CameraErr
     /\ (Render /\ r.error = CameraErr /\ r.cameraOn = cameraOn)
          => pendingGUM' = pendingGUM]_vars

C17_DownloadNeedsArtifact ==
  [][(DownloadVideo \/ DownloadCall) =>
       IF r.videoBlobUrl.kind = "none"
         THEN error' = NoArtifactErr /\ downloads' = downloads
         ELSE /\ downloads' = downloads + 1
              /\ videoBlobUrl = r.videoBlobUrl
              /\ ~isRecording /\ ~r.isRecording
              /\ recorder.state # "recording"]_vars

C17_Witness ==
  /\ error = NoArtifactErr /\ downloads = 0
  /\ isRecording /\ recorder.state = "recording"

\* C18: at most one detection interval is live, however often the stream
\* is restarted.
C18_SingleInterval == timersCur + timersStale <= 1

\* the session is back in idle: the recorder is inactive, the chunk sequence
\* is empty and, in a mounted component, the recording flag is false and an
\* artifact reference is set
BackToIdle ==
  /\ recorder.state = "inactive"
  /\ recordedChunks = <<>>
  /\ mounted => (~isRecording /\ videoBlobUrl.kind = "blob")

\* C19: once stop() has been signalled to a recording recorder, and given
\* that its finalize event is delivered, the session returns to idle.
C19_StopLeadsToIdle == (recorder.state = "stopping") ~> BackToIdle

C19_Witness ==
  /\ recorder.state = "stopping" /\ mounted /\ r.cameraOn
  /\ isRecording /\ r.isRecording
  /\ recordedChunks = <<(<<1>>)>>

\* C20: while a recording is active (flag set, stop not signalled) the
\* stream its recorder was built on is the attached stream and is live.
C20_RecordedStreamStaysLive ==
  (isRecording /\ recorder.state = "recording") =>
     /\ recorder.stream = srcObject
     /\ recorder.stream \in liveStreams

====
